---- MODULE Spec2Model ----
(***************************************************************************)
(* A model of ArgumentParser (src/include/arg_parser.hpp,                  *)
(* src/src/arg_parser.cpp): the schema registry, the token binder and the  *)
(* validator of load_arguments, and the typed accessor parse_option.       *)
(*                                                                         *)
(* A std::string is a sequence of one-character strings, so that the       *)
(* character-level code (A[0] == '-', find_first_not_of, find_last_of,     *)
(* operator>> of a stringstream, the ordering of std::map<arg_key, ...>)   *)
(* is computed as the code computes it.                                    *)
(***************************************************************************)
EXTENDS Integers, Sequences, FiniteSets, TLC

VARIABLES
    exec_name_,   \* std::string exec_name_
    positional_,  \* std::vector<arg_pos> positional_
    options_,     \* std::map<arg_key, arg_opt> options_ : a function on the registered keys
    mandatory_,   \* std::set<arg_key> mandatory_
    mtx_groups_,  \* std::unordered_map<std::string, arg_group> mtx_groups_
    pc,           \* where the host stands: "idle" between calls, "returned" from a call of
                  \* the registry, "bind" in the loop of load_arguments, "done" after it
    args,         \* load_arguments: std::vector<std::string> args (argv[1..])
    idx,          \* load_arguments: the index in args of the token the range-for is at
    opt,          \* load_arguments: the iterator opt (end, or the key of the pending option)
    pos,          \* load_arguments: size_t pos
    last          \* the last call of the host: its name, its arguments and what it returned or raised

vars == <<exec_name_, positional_, options_, mandatory_, mtx_groups_,
          pc, args, idx, opt, pos, last>>

parser == <<exec_name_, positional_, options_, mandatory_, mtx_groups_>>
frame == <<args, idx, opt, pos>>

----------------------------------------------------------------------------
(* Characters and strings *)

\* The code of a character (ASCII), for std::string's operator<.
Ascii(c) ==
    CASE c = " " -> 32
      [] c = "-" -> 45
      [] c = "/" -> 47
      [] c = "0" -> 48
      [] c = "1" -> 49
      [] c = "2" -> 50
      [] c = "3" -> 51
      [] c = "F" -> 70
      [] c = "a" -> 97
      [] c = "b" -> 98
      [] c = "d" -> 100
      [] c = "e" -> 101
      [] c = "h" -> 104
      [] c = "l" -> 108
      [] c = "p" -> 112
      [] c = "q" -> 113
      [] c = "v" -> 118
      [] c = "x" -> 120
      [] c = "z" -> 122

\* std::string::operator< : lexicographic on the characters' codes.
RECURSIVE StrLess(_, _)
StrLess(s, t) ==
    IF t = <<>> THEN FALSE
    ELSE IF s = <<>> THEN TRUE
    ELSE IF Ascii(Head(s)) < Ascii(Head(t)) THEN TRUE
    ELSE IF Ascii(Head(s)) > Ascii(Head(t)) THEN FALSE
    ELSE StrLess(Tail(s), Tail(t))

\* std::string::substr(from) with from a 0-based offset <= size().
substr(s, from) == SubSeq(s, from + 1, Len(s))

----------------------------------------------------------------------------
(* arg_key, arg_opt, arg_default, arg_group *)

BOOL == "BOOL"
INT == "INT"
HEX == "HEX"
FLT == "FLT"
STR == "STR"
ArgumentType == {BOOL, INT, HEX, FLT, STR}

REQUIRED == "REQUIRED"
OPTIONAL == "OPTIONAL"
INHERIT_GROUP == "INHERIT_GROUP"
ArgumentOption == {REQUIRED, OPTIONAL, INHERIT_GROUP}

arg_key(s, l) == [shr |-> s, lng |-> l]

\* arg_key::empty()
key_empty(ak) == ak.shr = <<>> /\ ak.lng = <<>>

\* arg_key::operator< : the order of std::map<arg_key, arg_opt> and std::set<arg_key>.
key_less(a, b) ==
    \/ StrLess(a.shr, b.shr)
    \/ a.shr = b.shr /\ StrLess(a.lng, b.lng)

\* arg_opt(v, t, d, def)
arg_opt(v, t, d, def) ==
    [value |-> v, type |-> t, is_set |-> def, has_default |-> def, desc |-> d]

\* arg_default() and arg_default(v): the pair (first, second).
no_default == [first |-> FALSE, second |-> <<>>]
arg_default(v) == [first |-> TRUE, second |-> v]

\* arg_group(m): an empty std::set<arg_key> and the flag mandatory_.
arg_group(m) == [members |-> {}, mandatory |-> m]

----------------------------------------------------------------------------
(* The parser object.  The operations below take the object `this` as a    *)
(* record [exec_name, positional, options, mandatory, mtx_groups] and give *)
(* back the object after the call together with what the call returned.    *)

This ==
    [exec_name |-> exec_name_, positional |-> positional_, options |-> options_,
     mandatory |-> mandatory_, mtx_groups |-> mtx_groups_]

\* options_.end(): the key no option can have (register_option refuses the empty key).
options_end == arg_key(<<>>, <<>>)

\* The first element of a non-empty set of keys in the order of arg_key::operator<.
first_key(S) == CHOOSE k \in S : \A j \in S \ {k} : key_less(k, j)

\* find_option_(const std::string&): std::find_if over the map in key order.
find_option_(this, key) ==
    LET hits == {k \in DOMAIN this.options : k.shr = key \/ k.lng = key}
    IN  IF hits = {} THEN options_end ELSE first_key(hits)

\* find_option_(const arg_key&): the result of the second lookup is dropped.
find_option_key_(this, ak) == find_option_(this, ak.shr)

\* has_option<std::string> and has_option<arg_key>
has_option(this, key) == find_option_(this, key) # options_end
has_option_key(this, ak) == find_option_key_(this, ak) # options_end

\* option_is_set<std::string> and option_is_set<arg_key>
option_is_set(this, key) ==
    has_option(this, key) /\ this.options[find_option_(this, key)].is_set
option_is_set_key(this, ak) ==
    has_option_key(this, ak) /\ this.options[find_option_key_(this, ak)].is_set

\* option_is_mutually_exclusive_
option_is_mutually_exclusive_(this, ak) ==
    \E g \in DOMAIN this.mtx_groups : ak \in this.mtx_groups[g].members

\* make_option_mandatory_
make_option_mandatory_(this, ak) ==
    [this EXCEPT !.mandatory = @ \cup {ak}]

\* arg_group::make_mandatory on the group named g
make_mandatory(this, g) ==
    [this EXCEPT !.mtx_groups[g].mandatory = TRUE]

\* A registry that stores with options_[ak] = o: a registered key's option is
\* overwritten (the mutant of emplace_option).
emplace_option_assigning(this, ak, o) ==
    [second |-> ak \notin DOMAIN this.options,
     this |-> [this EXCEPT !.options =
                    [k \in DOMAIN this.options \cup {ak} |->
                        IF k = ak THEN o ELSE this.options[k]]]]

\* options_.emplace(ak, o): inserts only when the key is new; second tells which.
emplace_option(this, ak, o) ==
    IF ak \in DOMAIN this.options
    THEN [second |-> FALSE, this |-> this]
    ELSE [second |-> TRUE,
          this |-> [this EXCEPT !.options =
                        [k \in DOMAIN this.options \cup {ak} |->
                            IF k = ak THEN o ELSE this.options[k]]]]

\* add_mutually_exclusive_group
add_mutually_exclusive_group(this, grp_name, required) ==
    IF grp_name \in DOMAIN this.mtx_groups
    THEN [ret |-> FALSE, this |-> this]
    ELSE [ret |-> TRUE,
          this |-> [this EXCEPT !.mtx_groups =
                        [g \in DOMAIN this.mtx_groups \cup {grp_name} |->
                            IF g = grp_name THEN arg_group(required)
                            ELSE this.mtx_groups[g]]]]

\* insert_into_group
insert_into_group(this, grp_name, ak) ==
    IF grp_name \in DOMAIN this.mtx_groups
    THEN [ret |-> TRUE,
          this |-> [this EXCEPT !.mtx_groups[grp_name].members = @ \cup {ak}]]
    ELSE [ret |-> FALSE, this |-> this]

\* register_option
register_option(this, ak, ropt, type, desc, excl_group, default_value) ==
    IF key_empty(ak) THEN [ret |-> FALSE, this |-> this]
    ELSE IF ropt = INHERIT_GROUP /\ excl_group = "" THEN [ret |-> FALSE, this |-> this]
    ELSE
      LET stored == emplace_option(this, ak,
                        arg_opt(default_value.second, type, desc, default_value.first))
      IN
      IF ~stored.second THEN [ret |-> FALSE, this |-> stored.this]
      ELSE
        LET t1 == IF ropt = REQUIRED
                  THEN make_option_mandatory_(stored.this, ak) ELSE stored.this
        IN
        IF excl_group # "" /\ excl_group \in DOMAIN t1.mtx_groups
        THEN
          LET t2 == IF ropt = REQUIRED THEN make_mandatory(t1, excl_group) ELSE t1
              grp == t2.mtx_groups[excl_group]
              t3 == IF grp.mandatory \/ (ropt = INHERIT_GROUP /\ grp.mandatory)
                    THEN make_option_mandatory_(t2, ak) ELSE t2
          IN  insert_into_group(t3, excl_group, ak)
        ELSE IF excl_group # "" /\ excl_group \notin DOMAIN t1.mtx_groups
        THEN [ret |-> FALSE, this |-> t1]
        ELSE [ret |-> TRUE, this |-> t1]

\* std::to_string of a small number
to_string(n) ==
    CASE n = 0 -> <<"0">> [] n = 1 -> <<"1">> [] n = 2 -> <<"2">> [] n = 3 -> <<"3">>

\* register_positional
RECURSIVE register_positional_from(_, _, _, _)
register_positional_from(this, i, count, names) ==
    IF i >= count THEN this
    ELSE register_positional_from(
            [this EXCEPT !.positional =
                Append(@, [value |-> <<>>,
                           name |-> IF i < Len(names) THEN names[i + 1]
                                    ELSE <<"A", "R", "G", "_">> \o to_string(i + 1)])],
            i + 1, count, names)
register_positional(this, count, names) ==
    register_positional_from(this, 0, count, names)

\* The key, the description of the help option (the constructor's call).
help_key == arg_key(<<"h">>, <<"h", "e", "l", "p">>)
help_desc == "Show help text and exit"

\* ArgumentParser::ArgumentParser
constructed ==
    register_option(
        [exec_name |-> <<>>, positional |-> <<>>, options |-> <<>>,
         mandatory |-> {}, mtx_groups |-> <<>>],
        help_key, OPTIONAL, BOOL, help_desc, "", no_default).this

----------------------------------------------------------------------------
(* load_arguments: the binder *)

\* std::string::npos, the result of a search that finds nothing.
npos == -1

\* exe.find_last_of(c): the 0-based offset of the last c, or npos.
find_last_of(s, c) ==
    LET at == {i \in 1..Len(s) : s[i] = c}
    IN  IF at = {} THEN npos ELSE (CHOOSE i \in at : \A j \in at : j <= i) - 1

\* A.find_first_not_of(c): the 0-based offset of the first character other than c, or npos.
find_first_not_of(s, c) ==
    LET at == {i \in 1..Len(s) : s[i] # c}
    IN  IF at = {} THEN npos ELSE (CHOOSE i \in at : \A j \in at : i <= j) - 1

\* The executable's name: argv[0] after its last '/'.
executable_name(argv0) ==
    LET p == find_last_of(argv0, "/")
    IN  IF p # npos THEN substr(argv0, p + 1) ELSE argv0

\* (A[0] == '-' || A.substr(0, 2) == "--"); A[0] of an empty string is '\0'.
is_dash(A) ==
    \/ Len(A) >= 1 /\ A[1] = "-"
    \/ Len(A) >= 2 /\ SubSeq(A, 1, 2) = <<"-", "-">>

\* A loop that takes every dash token for an option, whatever pos is (the mutant
\* of is_option_token).
is_option_token_any_pos(A, p) == is_dash(A)

\* The condition of the first branch of the loop: a dash token while !pos.
is_option_token(A, p) == is_dash(A) /\ p = 0

\* positional_.capacity(): only whether it is 0 is read; it is 0 until the first
\* emplace_back and at least size() afterwards.
positional_capacity(this) == Len(this.positional)

\* What one pass of the loop body does with the token A, as the set of the
\* outcomes [this, opt, pos, thrown] the build can produce.  thrown is "" when the
\* pass completes, else the exception: "parse_error" (the logic_error of the last
\* branch), "substr_out_of_range" (A.substr past the end: a token of dashes only),
\* or "crash" for a write outside the vector that the process does not survive.
bind_token(this, A, o, p) ==
    IF is_option_token(A, p) THEN
        LET from == find_first_not_of(A, "-") IN
        IF from = npos
        THEN {[this |-> this, opt |-> o, pos |-> p, thrown |-> "substr_out_of_range"]}
        ELSE
          LET opt_key == substr(A, from)
              found == find_option_(this, opt_key)
              t1 == IF found # options_end
                    THEN [this EXCEPT !.options[found].is_set = TRUE] ELSE this
          IN  IF found # options_end
              THEN {[this |-> t1,
                     opt |-> IF t1.options[found].type = BOOL THEN options_end ELSE found,
                     pos |-> p, thrown |-> ""]}
              \* opt->second.type read through options_.end(): any value may be read
              ELSE {[this |-> t1,
                     opt |-> IF type = BOOL THEN options_end ELSE found,
                     pos |-> p, thrown |-> ""] : type \in ArgumentType}
    ELSE IF ~is_dash(A) THEN
        IF o # options_end
        THEN {[this |-> [this EXCEPT !.options[o].value = A],
               opt |-> options_end, pos |-> p, thrown |-> ""]}
        ELSE IF positional_capacity(this) # 0
        THEN IF p < Len(this.positional)
             THEN {[this |-> [this EXCEPT !.positional[p + 1].value = A],
                    opt |-> o, pos |-> p + 1, thrown |-> ""]}
             \* positional_[pos++] past size(): the write lands outside the slots
             ELSE {[this |-> this, opt |-> o, pos |-> p + 1, thrown |-> ""],
                   [this |-> this, opt |-> o, pos |-> p, thrown |-> "crash"]}
        ELSE {[this |-> this, opt |-> o, pos |-> p, thrown |-> ""]}
    ELSE {[this |-> this, opt |-> o, pos |-> p, thrown |-> "parse_error"]}

----------------------------------------------------------------------------
(* load_arguments: the validator *)

\* The members of group g that are registered and set / that are not registered.
set_members(this, g) ==
    {k \in this.mtx_groups[g].members \cap DOMAIN this.options : this.options[k].is_set}
unregistered_members(this, g) ==
    this.mtx_groups[g].members \ DOMAIN this.options

\* check_mandatory_options_: thrown when options_.at(M) finds no option.
check_mandatory_options_(this) ==
    LET ungrouped == {M \in this.mandatory : ~option_is_mutually_exclusive_(this, M)}
    IN  [thrown |-> ungrouped \ DOMAIN this.options # {},
         missing |-> {M \in ungrouped \cap DOMAIN this.options : ~this.options[M].is_set}]

\* check_mandatory_option_groups_: std::all_of walks a group's members in key
\* order and stops at the first one that is set; options_.at throws at a member
\* that is not registered when the walk reaches it.
check_mandatory_option_groups_(this) ==
    LET walked == {g \in DOMAIN this.mtx_groups : this.mtx_groups[g].mandatory}
        throws(g) == \E u \in unregistered_members(this, g) :
                        \A k \in set_members(this, g) : key_less(u, k)
    IN  [thrown |-> \E g \in walked : throws(g),
         missing |-> {g \in walked : ~throws(g) /\ set_members(this, g) = {}}]

\* A conflict check that counts with > 2 instead of > 1 (the mutant of
\* check_option_conflicts_).
check_option_conflicts_above_two(this) ==
    [thrown |-> \E g \in DOMAIN this.mtx_groups : unregistered_members(this, g) # {},
     conflicts |-> {g \in DOMAIN this.mtx_groups :
                        unregistered_members(this, g) = {}
                        /\ Cardinality(set_members(this, g)) > 2}]

\* check_option_conflicts_: std::count_if visits every member of every group.
check_option_conflicts_(this) ==
    [thrown |-> \E g \in DOMAIN this.mtx_groups : unregistered_members(this, g) # {},
     conflicts |-> {g \in DOMAIN this.mtx_groups :
                        unregistered_members(this, g) = {}
                        /\ Cardinality(set_members(this, g)) > 1}]

\* A guard that looks the help option up by its token, "--help", which is no
\* option's name (the mutant of help_requested).
help_requested_by_token(this) ==
    option_is_set(this, <<"-", "-">> \o help_key.lng)

\* The test that guards the validator: !option_is_set("help").
help_requested(this) == option_is_set(this, help_key.lng)

\* What load_arguments does after the loop, as [thrown, missing_args, missing_grp,
\* conflicting, listed]: thrown is "none" when it returns, else "at_out_of_range"
\* (options_.at), "required" (the error built from the missing options and the
\* missing groups), "conflict" or "missing_positional".  listed gives, per
\* conflicting group, the members the conflict message prints.
validate(this, p) ==
    LET quiet == [thrown |-> "none", missing_args |-> {}, missing_grp |-> {},
                  conflicting |-> {}, listed |-> <<>>]
    IN
    IF help_requested(this) THEN quiet
    ELSE
      LET missing_args == check_mandatory_options_(this)
          missing_grp == check_mandatory_option_groups_(this)
          conflicting_opts == check_option_conflicts_(this)
      IN
      IF missing_args.thrown \/ missing_grp.thrown \/ conflicting_opts.thrown
      THEN [quiet EXCEPT !.thrown = "at_out_of_range"]
      ELSE IF missing_args.missing # {} \/ missing_grp.missing # {}
      THEN [quiet EXCEPT !.thrown = "required",
                         !.missing_args = missing_args.missing,
                         !.missing_grp = missing_grp.missing]
      ELSE IF conflicting_opts.conflicts # {}
      THEN [quiet EXCEPT !.thrown = "conflict",
                         !.conflicting = conflicting_opts.conflicts,
                         !.listed = [g \in conflicting_opts.conflicts |->
                                        {O \in this.mtx_groups[g].members :
                                            option_is_set_key(this, O)}]]
      ELSE IF p < Len(this.positional)
      THEN [quiet EXCEPT !.thrown = "missing_positional"]
      ELSE quiet

----------------------------------------------------------------------------
(* The host's calls *)

\* The object after a call.
Becomes(this) ==
    /\ exec_name_' = this.exec_name
    /\ positional_' = this.positional
    /\ options_' = this.options
    /\ mandatory_' = this.mandatory
    /\ mtx_groups_' = this.mtx_groups

\* The state a constructed parser is in.
Init ==
    /\ exec_name_ = constructed.exec_name
    /\ positional_ = constructed.positional
    /\ options_ = constructed.options
    /\ mandatory_ = constructed.mandatory
    /\ mtx_groups_ = constructed.mtx_groups
    /\ pc = "idle"
    /\ args = <<>>
    /\ idx = 1
    /\ opt = options_end
    /\ pos = 0
    /\ last = [op |-> "none"]

\* The bounds of the model.
MaxArgs == 2
MaxSlots == 2

\* The keys, types, defaults, group names and tokens the host's calls draw from.
k_a == arg_key(<<"a">>, <<>>)
k_ab == arg_key(<<"a">>, <<"b">>)
KeyPool == {k_a, k_ab}
TypePool == {BOOL, STR}
DefaultPool == {no_default, arg_default(<<"d">>)}
GroupPool == {"g"}
GroupArgPool == {"", "g", "m"}
TokenPool ==
    { <<"-", "a">>, <<"-", "-", "b">>, <<"-", "-", "h", "e", "l", "p">>,
      <<"-", "q">>, <<"-">>, <<"v">> }
Argv0Pool == { <<".", "/", "p">> }

\* The sequences over S of length at most n.
SeqsUpTo(S, n) == UNION {[1..m -> S] : m \in 0..n}

\* bool register_option(ak, opt, type, desc, excl_group, default_value)
RegisterOption ==
    /\ pc = "idle"
    /\ \E ak \in KeyPool \cup {options_end}, ropt \in ArgumentOption, type \in TypePool,
          excl_group \in GroupArgPool, default_value \in DefaultPool :
        LET r == register_option(This, ak, ropt, type, "", excl_group, default_value)
        IN  /\ Becomes(r.this)
            /\ last' = [op |-> "register_option", ak |-> ak, ropt |-> ropt,
                        type |-> type, excl_group |-> excl_group,
                        default_value |-> default_value, ret |-> r.ret]
    /\ pc' = "returned"
    /\ UNCHANGED frame

\* void register_positional(count, names)
RegisterPositional ==
    /\ pc = "idle"
    /\ \E count \in 1..(MaxSlots - Len(positional_)) :
        /\ Becomes(register_positional(This, count, <<>>))
        /\ last' = [op |-> "register_positional", count |-> count]
    /\ pc' = "returned"
    /\ UNCHANGED frame

\* bool add_mutually_exclusive_group(grp_name, required)
AddMutuallyExclusiveGroup ==
    /\ pc = "idle"
    /\ \E grp_name \in GroupPool, required \in BOOLEAN :
        LET r == add_mutually_exclusive_group(This, grp_name, required)
        IN  /\ Becomes(r.this)
            /\ last' = [op |-> "add_mutually_exclusive_group", grp_name |-> grp_name,
                        required |-> required, ret |-> r.ret]
    /\ pc' = "returned"
    /\ UNCHANGED frame

\* bool insert_into_group(grp_name, ak)
InsertIntoGroup ==
    /\ pc = "idle"
    /\ \E grp_name \in GroupArgPool \ {""}, ak \in KeyPool :
        LET r == insert_into_group(This, grp_name, ak)
        IN  /\ Becomes(r.this)
            /\ last' = [op |-> "insert_into_group", grp_name |-> grp_name,
                        ak |-> ak, ret |-> r.ret]
    /\ pc' = "returned"
    /\ UNCHANGED frame

\* The host goes on to its next statement.
Resume ==
    /\ pc = "returned"
    /\ pc' = "idle"
    /\ last' = [op |-> "none"]
    /\ UNCHANGED <<parser, frame>>

\* What `last` holds while load_arguments runs.
running ==
    [op |-> "load_arguments", thrown |-> "running", missing_args |-> {},
     missing_grp |-> {}, conflicting |-> {}, listed |-> <<>>]

\* load_arguments(argc, argv), up to the loop over args
LoadArguments ==
    /\ pc = "idle"
    /\ \E argv0 \in Argv0Pool, rest \in SeqsUpTo(TokenPool, MaxArgs) :
        /\ exec_name_' = executable_name(argv0)
        /\ args' = rest
    /\ idx' = 1
    /\ opt' = options_end
    /\ pos' = 0
    /\ pc' = "bind"
    /\ last' = running
    /\ UNCHANGED <<positional_, options_, mandatory_, mtx_groups_>>

\* load_arguments: one pass of the loop over args
BindToken ==
    /\ pc = "bind"
    /\ idx <= Len(args)
    /\ \E r \in bind_token(This, args[idx], opt, pos) :
        /\ Becomes(r.this)
        /\ opt' = r.opt
        /\ pos' = r.pos
        /\ IF r.thrown = ""
           THEN pc' = "bind" /\ idx' = idx + 1 /\ last' = last
           ELSE pc' = "done" /\ idx' = idx /\ last' = [last EXCEPT !.thrown = r.thrown]
    /\ UNCHANGED args

\* load_arguments: after the loop, the checks; the call returns or throws
Validate ==
    /\ pc = "bind"
    /\ idx > Len(args)
    /\ pc' = "done"
    /\ last' = [op |-> "load_arguments"] @@ validate(This, pos)
    /\ UNCHANGED <<parser, args, idx, opt, pos>>

Next ==
    \/ RegisterOption
    \/ RegisterPositional
    \/ AddMutuallyExclusiveGroup
    \/ InsertIntoGroup
    \/ Resume
    \/ LoadArguments
    \/ BindToken
    \/ Validate

Spec == Init /\ [][Next]_vars

----------------------------------------------------------------------------
(* The registry with two groups *)

\* The group names of a host that declares two groups.
TwoGroups == {"g", "h"}

\* bool add_mutually_exclusive_group(grp_name, required), for either group
AddEitherGroup ==
    /\ pc = "idle"
    /\ \E grp_name \in TwoGroups, required \in BOOLEAN :
        LET r == add_mutually_exclusive_group(This, grp_name, required)
        IN  /\ Becomes(r.this)
            /\ last' = [op |-> "add_mutually_exclusive_group", grp_name |-> grp_name,
                        required |-> required, ret |-> r.ret]
    /\ pc' = "returned"
    /\ UNCHANGED frame

\* bool register_option(ak, opt, BOOL, "", excl_group), in no group or in either
RegisterGroupedOption ==
    /\ pc = "idle"
    /\ \E ak \in KeyPool, ropt \in ArgumentOption, excl_group \in {""} \cup TwoGroups :
        LET r == register_option(This, ak, ropt, BOOL, "", excl_group, no_default)
        IN  /\ Becomes(r.this)
            /\ last' = [op |-> "register_option", ak |-> ak, ropt |-> ropt,
                        type |-> BOOL, excl_group |-> excl_group,
                        default_value |-> no_default, ret |-> r.ret]
    /\ pc' = "returned"
    /\ UNCHANGED frame

\* bool insert_into_group(grp_name, ak), for either group
InsertIntoEitherGroup ==
    /\ pc = "idle"
    /\ \E grp_name \in TwoGroups, ak \in KeyPool :
        LET r == insert_into_group(This, grp_name, ak)
        IN  /\ Becomes(r.this)
            /\ last' = [op |-> "insert_into_group", grp_name |-> grp_name,
                        ak |-> ak, ret |-> r.ret]
    /\ pc' = "returned"
    /\ UNCHANGED frame

NextGroups ==
    \/ AddEitherGroup
    \/ RegisterGroupedOption
    \/ InsertIntoEitherGroup
    \/ Resume

SpecGroups == Init /\ [][NextGroups]_vars

----------------------------------------------------------------------------
(* load_arguments called again and again on one instance *)

\* The loop over args from the token at i on, as the set of the outcomes
\* [this, idx, opt, pos, thrown]: thrown is "" when the loop ran to its end.
RECURSIVE bind_all(_, _, _, _, _)
bind_all(this, tokens, i, o, p) ==
    IF i > Len(tokens)
    THEN {[this |-> this, idx |-> i, opt |-> o, pos |-> p, thrown |-> ""]}
    ELSE UNION {
            IF r.thrown = ""
            THEN bind_all(r.this, tokens, i + 1, r.opt, r.pos)
            ELSE {[this |-> r.this, idx |-> i, opt |-> r.opt, pos |-> r.pos,
                   thrown |-> r.thrown]}
            : r \in bind_token(this, tokens[i], o, p)}

\* A load_arguments that begins by putting every option's is_set back to what
\* registration gave it (the mutant of load_arguments).
load_arguments_clearing(this, argv0, rest) ==
    LET cleared == [this EXCEPT
                        !.exec_name = executable_name(argv0),
                        !.options = [k \in DOMAIN this.options |->
                                        [this.options[k] EXCEPT !.is_set = @ /\ FALSE]]]
    IN  {[this |-> b.this, idx |-> b.idx, opt |-> b.opt, pos |-> b.pos,
          result |-> IF b.thrown = ""
                     THEN [op |-> "load_arguments"] @@ validate(b.this, b.pos)
                     ELSE [running EXCEPT !.thrown = b.thrown]]
         : b \in bind_all(cleared, rest, 1, options_end, 0)}

\* load_arguments(argc, argv) as one call: the outcomes [this, idx, opt, pos, result],
\* result being what the call did (returned, or the exception).
load_arguments(this, argv0, rest) ==
    LET named == [this EXCEPT !.exec_name = executable_name(argv0)]
    IN  {[this |-> b.this, idx |-> b.idx, opt |-> b.opt, pos |-> b.pos,
          result |-> IF b.thrown = ""
                     THEN [op |-> "load_arguments"] @@ validate(b.this, b.pos)
                     ELSE [running EXCEPT !.thrown = b.thrown]]
         : b \in bind_all(named, rest, 1, options_end, 0)}

\* The tokens of the command lines given to the repeated calls.
ReloadTokenPool ==
    { <<"-", "a">>, <<"-", "-", "h", "e", "l", "p">>, <<"v">>, <<>> }

\* bool register_option({"a",""}, opt, type, "", "", default_value)
RegisterReloadOption ==
    /\ pc = "idle"
    /\ \E ropt \in {REQUIRED, OPTIONAL}, type \in TypePool, default_value \in DefaultPool :
        LET r == register_option(This, k_a, ropt, type, "", "", default_value)
        IN  /\ Becomes(r.this)
            /\ last' = [op |-> "register_option", ak |-> k_a, ropt |-> ropt,
                        type |-> type, excl_group |-> "",
                        default_value |-> default_value, ret |-> r.ret]
    /\ pc' = "returned"
    /\ UNCHANGED frame

\* load_arguments(argc, argv), the whole call, the first one or a later one
LoadArgumentsCall ==
    /\ pc \in {"idle", "done"}
    /\ \E argv0 \in Argv0Pool, rest \in SeqsUpTo(ReloadTokenPool, MaxArgs) :
        \E r \in load_arguments(This, argv0, rest) :
            /\ Becomes(r.this)
            /\ args' = rest
            /\ idx' = r.idx
            /\ opt' = r.opt
            /\ pos' = r.pos
            /\ last' = r.result
    /\ pc' = "done"

NextReload ==
    \/ RegisterReloadOption
    \/ RegisterPositional
    \/ Resume
    \/ LoadArgumentsCall

SpecReload == Init /\ [][NextReload]_vars

----------------------------------------------------------------------------
(* A group of options whose keys have one name only *)

\* Keys with a long name only, and the pool of keys of the group's options.
k_b == arg_key(<<>>, <<"b">>)
k_d == arg_key(<<>>, <<"d">>)
OneNameKeyPool == {k_a, k_b, k_d}
OneNameTokenPool == { <<"-", "a">>, <<"-", "-", "b">>, <<"-", "-", "d">> }

\* bool register_option(ak, OPTIONAL, BOOL, "", excl_group), ak with one name
RegisterOneNameOption ==
    /\ pc = "idle"
    /\ \E ak \in OneNameKeyPool, excl_group \in {""} \cup GroupPool :
        LET r == register_option(This, ak, OPTIONAL, BOOL, "", excl_group, no_default)
        IN  /\ Becomes(r.this)
            /\ last' = [op |-> "register_option", ak |-> ak, ropt |-> OPTIONAL,
                        type |-> BOOL, excl_group |-> excl_group,
                        default_value |-> no_default, ret |-> r.ret]
    /\ pc' = "returned"
    /\ UNCHANGED frame

\* load_arguments(argc, argv), the whole call, on the tokens of these options
LoadOneNameArguments ==
    /\ pc = "idle"
    /\ \E argv0 \in Argv0Pool, rest \in SeqsUpTo(OneNameTokenPool, MaxArgs) :
        \E r \in load_arguments(This, argv0, rest) :
            /\ Becomes(r.this)
            /\ args' = rest
            /\ idx' = r.idx
            /\ opt' = r.opt
            /\ pos' = r.pos
            /\ last' = r.result
    /\ pc' = "done"

NextConflict ==
    \/ AddMutuallyExclusiveGroup
    \/ RegisterOneNameOption
    \/ Resume
    \/ LoadOneNameArguments

SpecConflict == Init /\ [][NextConflict]_vars

----------------------------------------------------------------------------
(* parse_option<T>: the typed accessor, for T = int and T = std::string *)

\* The characters the strings of the model are written in.
Characters ==
    {" ", "-", "+", ".", "/", "0", "1", "2", "3", "F", "X", "a", "b", "d", "e", "h",
     "l", "p", "q", "v", "x", "z"}

\* std::isspace
is_space(c) == c = " "

\* The value of a digit in the base, or -1 when c is no digit of the base.
digit_value(c, base) ==
    LET v == CASE c = "0" -> 0 [] c = "1" -> 1 [] c = "2" -> 2 [] c = "3" -> 3
               [] c = "a" -> 10 [] c = "b" -> 11 [] c = "d" -> 13 [] c = "e" -> 14
               [] c = "F" -> 15 [] OTHER -> -1
    IN  IF v < base THEN v ELSE -1

\* The stream's sentry with skipws: the input after its leading whitespace.
RECURSIVE skip_ws(_)
skip_ws(s) == IF s # <<>> /\ is_space(Head(s)) THEN skip_ws(Tail(s)) ELSE s

\* The longest prefix of s whose characters are all in the set C.
RECURSIVE take_while(_, _)
take_while(s, C) ==
    IF s # <<>> /\ Head(s) \in C THEN <<Head(s)>> \o take_while(Tail(s), C) ELSE <<>>

\* std::numeric_limits<int>::max() and min() of a 32-bit int.
INT_MAX == 2147483647
INT_MIN == -INT_MAX - 1

\* The number a sequence of digits writes in the base, or -1 once it is above
\* INT_MAX (num_get accumulates with a test for overflow).
RECURSIVE number_of(_, _, _)
number_of(ds, base, acc) ==
    IF ds = <<>> \/ acc = -1 THEN acc
    ELSE LET d == digit_value(Head(ds), base)
         IN  number_of(Tail(ds), base,
                       IF acc > (INT_MAX - d) \div base THEN -1 ELSE acc * base + d)

\* ss >> std::string: skips whitespace, takes the characters up to the next
\* whitespace; fails, leaving the string as it was, when there is none.
extract_string(s) ==
    LET t == skip_ws(s)
    IN  IF t = <<>> THEN [ok |-> FALSE, stored |-> FALSE, val |-> <<>>]
        ELSE [ok |-> TRUE, stored |-> TRUE,
              val |-> take_while(t, {c \in Characters : ~is_space(c)})]

\* A num_get that knows no 0x prefix in base 16 (the mutant of extract_int).
extract_int_no_prefix(s, base) ==
    LET t == skip_ws(s)
        signed == t # <<>> /\ Head(t) \in {"+", "-"}
        body == IF signed THEN Tail(t) ELSE t
        ds == take_while(body, {c \in Characters : digit_value(c, base) >= 0})
        n == number_of(ds, base, 0)
        negative == signed /\ Head(t) = "-"
    IN  IF t = <<>> THEN [ok |-> FALSE, stored |-> FALSE, val |-> 0]
        ELSE IF ds = <<>> THEN [ok |-> FALSE, stored |-> TRUE, val |-> 0]
        ELSE IF n = -1
        THEN [ok |-> FALSE, stored |-> TRUE, val |-> IF negative THEN INT_MIN ELSE INT_MAX]
        ELSE [ok |-> TRUE, stored |-> TRUE, val |-> IF negative THEN 0 - n ELSE n]

\* ss >> int with the stream's base (16 after ss << std::hex, else 10): skips
\* whitespace; when the stream is at its end the sentry fails and the int is not
\* written; else num_get reads a sign, in base 16 a 0x prefix, and digits, and
\* stores the number, or 0 and failbit when there is no digit, or the nearest
\* limit of int and failbit when the number does not fit.
extract_int(s, base) ==
    LET t == skip_ws(s)
        signed == t # <<>> /\ Head(t) \in {"+", "-"}
        body == IF signed THEN Tail(t) ELSE t
        prefixed == base = 16 /\ Len(body) >= 2 /\ body[1] = "0" /\ body[2] \in {"x", "X"}
        rest == IF prefixed THEN substr(body, 2) ELSE body
        ds == take_while(rest, {c \in Characters : digit_value(c, base) >= 0})
        n == number_of(ds, base, 0)
        negative == signed /\ Head(t) = "-"
    IN  IF t = <<>> THEN [ok |-> FALSE, stored |-> FALSE, val |-> 0]
        ELSE IF ds = <<>> THEN [ok |-> FALSE, stored |-> TRUE, val |-> 0]
        ELSE IF n = -1
        THEN [ok |-> FALSE, stored |-> TRUE, val |-> IF negative THEN INT_MIN ELSE INT_MAX]
        ELSE [ok |-> TRUE, stored |-> TRUE, val |-> IF negative THEN 0 - n ELSE n]

\* What an int that was never written may hold.
Indeterminate == {-1, 0, 7}

\* bool assigned to a std::string: the one character whose code is the bool's.
char_of_true == <<"\\x01">>

\* An accessor without the case for BOOL: the stored string of a BOOL option is
\* converted like any other (the mutant of parse_option).
parse_option_converting_bool(this, T, name) ==
    LET val == find_option_(this, name)
        returns(v) == [thrown |-> "", value |-> v]
        T_default == IF T = "int" THEN 0 ELSE <<>>
    IN
    IF val # options_end /\ this.options[val].is_set
    THEN
      LET o == this.options[val]
          got(base) == IF T = "int" THEN extract_int(o.value, base)
                       ELSE extract_string(o.value)
      IN
      CASE o.type = HEX ->
             IF got(16).stored \/ T # "int"
             THEN {returns(got(16).val)}
             ELSE {returns(v) : v \in Indeterminate}
        [] OTHER ->
             IF ~got(10).ok
             THEN {[thrown |-> "conversion_error", value |-> T_default]}
             ELSE {returns(got(10).val)}
    ELSE {returns(T_default)}

\* parse_option<T>(opt), as the set of the outcomes [thrown, value] the build can
\* produce: thrown is "" when it returns value, "conversion_error" when it throws.
parse_option(this, T, name) ==
    LET val == find_option_(this, name)
        returns(v) == [thrown |-> "", value |-> v]
        T_default == IF T = "int" THEN 0 ELSE <<>>
    IN
    IF val # options_end /\ this.options[val].is_set
    THEN
      LET o == this.options[val]
          got(base) == IF T = "int" THEN extract_int(o.value, base)
                       ELSE extract_string(o.value)
      IN
      CASE o.type = BOOL ->
             {returns(IF T = "int" THEN 1 ELSE char_of_true)}
        [] o.type = HEX ->
             \* ss << std::hex; ss >> opt_val; the stream's state is not looked at
             IF got(16).stored \/ T # "int"
             THEN {returns(got(16).val)}
             ELSE {returns(v) : v \in Indeterminate}
        [] OTHER ->
             IF ~got(10).ok
             THEN {[thrown |-> "conversion_error", value |-> T_default]}
             ELSE {returns(got(10).val)}
    ELSE {returns(T_default)}

\* operator[](const std::string& key): the value of the first option that has
\* key as its short or long name, "" when there is none.
subscript(this, key) ==
    LET o == find_option_(this, key)
    IN  IF o # options_end THEN this.options[o].value ELSE <<>>

\* operator[](size_t idx): positional_.at(idx).value; at throws std::out_of_range.
subscript_idx(this, i) ==
    IF i < Len(this.positional)
    THEN [thrown |-> "", value |-> this.positional[i + 1].value]
    ELSE [thrown |-> "out_of_range", value |-> <<>>]

\* A range test that compares idx with size() - 1 as unsigned numbers: with no
\* slot size() - 1 is the largest size_t, nothing is above it, and the slot read
\* is outside the vector (the mutant of parse_positional).
parse_positional_unsigned(this, T, i) ==
    LET T_default == IF T = "int" THEN 0 ELSE <<>>
    IN
    IF i < 0 \/ (Len(this.positional) > 0 /\ i > Len(this.positional) - 1)
    THEN {[thrown |-> "index_error", value |-> T_default]}
    ELSE IF Len(this.positional) = 0
    THEN {[thrown |-> "", value |-> T_default]}
    ELSE
      LET got == IF T = "int" THEN extract_int(this.positional[i + 1].value, 10)
                 ELSE extract_string(this.positional[i + 1].value)
      IN  IF ~got.ok
          THEN {[thrown |-> "conversion_error", value |-> T_default]}
          ELSE {[thrown |-> "", value |-> got.val]}

\* parse_positional<T>(int idx): "index_error" is the logic_error of the range
\* test idx > static_cast<int>(size() - 1) || idx < 0, "conversion_error" the one
\* of a failed ss >> opt_val.
parse_positional(this, T, i) ==
    LET T_default == IF T = "int" THEN 0 ELSE <<>>
    IN
    IF i > Len(this.positional) - 1 \/ i < 0
    THEN {[thrown |-> "index_error", value |-> T_default]}
    ELSE
      LET got == IF T = "int" THEN extract_int(this.positional[i + 1].value, 10)
                 ELSE extract_string(this.positional[i + 1].value)
      IN  IF ~got.ok
          THEN {[thrown |-> "conversion_error", value |-> T_default]}
          ELSE {[thrown |-> "", value |-> got.val]}

\* The values and the requested types the accessor is tried on.
ValuePool ==
    { <<>>, <<"1">>, <<"F", "F">>, <<"0", "x", "F", "F">>, <<"z">>, <<"a", " ", "b">>,
      <<"F", "F", "F", "F", "F", "F", "F", "F">> }
RequestedTypes == {"int", "string"}

\* register_option of the option -a, of any type, with or without a default
RegisterTypedOption ==
    /\ pc = "idle"
    /\ \E type \in ArgumentType,
          default_value \in {no_default} \cup {arg_default(v) : v \in ValuePool} :
        LET r == register_option(This, k_a, OPTIONAL, type, "", "", default_value)
        IN  /\ Becomes(r.this)
            /\ last' = [op |-> "register_option", ak |-> k_a, ropt |-> OPTIONAL,
                        type |-> type, excl_group |-> "",
                        default_value |-> default_value, ret |-> r.ret]
    /\ pc' = "returned"
    /\ UNCHANGED frame

\* load_arguments on a command line that names -a, alone or followed by a value,
\* or that gives one or two positional tokens
LoadOptionValue ==
    /\ pc = "idle"
    /\ \E argv0 \in Argv0Pool,
          rest \in {<< <<"-", "a">> >>} \cup {<< <<"-", "a">>, v >> : v \in ValuePool}
                    \cup {<< v >> : v \in ValuePool}
                    \cup {<< v, <<"1">> >> : v \in ValuePool} :
        /\ exec_name_' = executable_name(argv0)
        /\ args' = rest
    /\ idx' = 1
    /\ opt' = options_end
    /\ pos' = 0
    /\ pc' = "bind"
    /\ last' = running
    /\ UNCHANGED <<positional_, options_, mandatory_, mtx_groups_>>

\* parse_option<T>(name), before or after load_arguments
ParseOption ==
    /\ pc \in {"idle", "done", "accessed"}
    /\ \E T \in RequestedTypes, name \in {<<"a">>, <<"q">>} :
        \E r \in parse_option(This, T, name) :
            last' = [op |-> "parse_option", T |-> T, name |-> name,
                     thrown |-> r.thrown, value |-> r.value]
    /\ pc' = "accessed"
    /\ UNCHANGED <<parser, frame>>

\* The names and the indexes the lookups are tried on.
LookupPool == { <<>>, <<"a">>, <<"b">>, <<"h">>, <<"h", "e", "l", "p">>, <<"q">> }
IndexPool == -1..(MaxSlots + 1)

\* operator[](key), a read of the value by name
Subscript ==
    /\ pc \in {"idle", "done", "accessed"}
    /\ \E key \in LookupPool :
        last' = [op |-> "operator[]", key |-> key, value |-> subscript(This, key)]
    /\ pc' = "accessed"
    /\ UNCHANGED <<parser, frame>>

\* has_option(key) and option_is_set(key), the read-only probes
Probe ==
    /\ pc \in {"idle", "done", "accessed"}
    /\ \E key \in LookupPool :
        last' = [op |-> "probe", key |-> key, has_option |-> has_option(This, key),
                 option_is_set |-> option_is_set(This, key)]
    /\ pc' = "accessed"
    /\ UNCHANGED <<parser, frame>>

\* operator[](idx), a read of a positional slot; idx is a size_t
SubscriptIdx ==
    /\ pc \in {"idle", "done", "accessed"}
    /\ \E i \in IndexPool \cap Nat :
        LET r == subscript_idx(This, i)
        IN  last' = [op |-> "operator[](idx)", idx |-> i,
                     thrown |-> r.thrown, value |-> r.value]
    /\ pc' = "accessed"
    /\ UNCHANGED <<parser, frame>>

\* parse_positional<T>(idx); idx is an int
ParsePositional ==
    /\ pc \in {"idle", "done", "accessed"}
    /\ \E T \in RequestedTypes, i \in IndexPool :
        \E r \in parse_positional(This, T, i) :
            last' = [op |-> "parse_positional", T |-> T, idx |-> i,
                     thrown |-> r.thrown, value |-> r.value]
    /\ pc' = "accessed"
    /\ UNCHANGED <<parser, frame>>

NextAccess ==
    \/ RegisterTypedOption
    \/ RegisterPositional
    \/ Resume
    \/ LoadOptionValue
    \/ BindToken
    \/ Validate
    \/ ParseOption
    \/ Subscript
    \/ Probe
    \/ SubscriptIdx
    \/ ParsePositional

SpecAccess == Init /\ [][NextAccess]_vars

----------------------------------------------------------------------------
(* Properties of the registry and of load_arguments, checked under Spec *)

\* A step that is a call of register_option, seen from both of its ends.
RegisterOptionCall ==
    pc = "idle" /\ pc' = "returned" /\ last'.op = "register_option"

\* load_arguments has ended (returned or thrown).
LoadEnded == pc = "done" /\ last.op = "load_arguments"

\* The loop over args ran to its end, so the validator was reached.
BinderCompleted ==
    LoadEnded /\ last.thrown \notin {"parse_error", "substr_out_of_range", "crash"}

\* The option the constructor registers is set.
HelpSet == options_[help_key].is_set

\* A token that begins with '-'.
BeginsWithDash(A) == Len(A) >= 1 /\ Head(A) = "-"

\* The groups a key is a member of.
GroupsOf(k) == {g \in DOMAIN mtx_groups_ : k \in mtx_groups_[g].members}

\* C1: register_option returns false and changes nothing in every failure case
\* (empty key, INHERIT_GROUP without a group, a group name that names no group, a
\* key already registered); after a false return the options, the required set
\* and the groups are what they were before the call.
C1_FailedRegistrationChangesNothing ==
    [][RegisterOptionCall =>
        LET failure ==
                \/ key_empty(last'.ak)
                \/ last'.ropt = INHERIT_GROUP /\ last'.excl_group = ""
                \/ last'.excl_group # "" /\ last'.excl_group \notin DOMAIN mtx_groups_
                \/ last'.ak \in DOMAIN options_
        IN  /\ failure => last'.ret = FALSE
            /\ last'.ret = FALSE =>
                /\ options_' = options_
                /\ mandatory_' = mandatory_
                /\ mtx_groups_' = mtx_groups_]_vars

\* C8: registering a key that is already registered returns false and leaves the
\* option (type, value, has_default, is_set, desc), the required set and every
\* group (members and mandatory flag) as they were, whatever the second call passes.
C8_DuplicateKeyRefused ==
    [][(RegisterOptionCall /\ last'.ak \in DOMAIN options_) =>
        /\ last'.ret = FALSE
        /\ options_' = options_
        /\ mandatory_' = mandatory_
        /\ mtx_groups_' = mtx_groups_]_vars

\* C8, its case: a second registration of a registered key that passed another
\* requirement, type, group and default than the first, and was refused.
C8_DuplicateSeen ==
    /\ pc = "returned"
    /\ last.op = "register_option"
    /\ last.ret = FALSE
    /\ last.ak \in DOMAIN options_
    /\ last.ropt = REQUIRED
    /\ last.ak \notin mandatory_
    /\ last.excl_group \in DOMAIN mtx_groups_
    /\ last.ak \notin mtx_groups_[last.excl_group].members
    /\ ~mtx_groups_[last.excl_group].mandatory
    /\ options_[last.ak].type # last.type
    /\ options_[last.ak].has_default # last.default_value.first
    /\ options_[last.ak].value # last.default_value.second

\* C4: when load_arguments returns without raising and help is not set, no group
\* has two or more members that are set (set by a default counts).
C4_NoConflictAfterReturn ==
    (LoadEnded /\ last.thrown = "none" /\ ~HelpSet) =>
        \A g \in DOMAIN mtx_groups_ :
            /\ mtx_groups_[g].members \subseteq DOMAIN options_
            /\ Cardinality({k \in mtx_groups_[g].members : options_[k].is_set}) <= 1

\* C4, its case: load_arguments returned, help not set, and a group of two
\* members has one member set by nothing but its default.
C4_ReturnedWithGroupMemberSetByDefault ==
    /\ LoadEnded /\ last.thrown = "none" /\ ~HelpSet
    /\ args = <<>>
    /\ \E g \in DOMAIN mtx_groups_ :
        /\ Cardinality(mtx_groups_[g].members) = 2
        /\ \E k \in mtx_groups_[g].members :
            options_[k].is_set /\ options_[k].has_default

\* C5: with the help option set after binding, load_arguments raises none of the
\* validator's errors (missing options or groups, conflict, missing positional).
C5_HelpSuppressesValidation ==
    (LoadEnded /\ HelpSet) =>
        last.thrown \notin {"required", "conflict", "missing_positional", "at_out_of_range"}

\* C5, its case: load_arguments returned with help set although a required
\* ungrouped option is unset, a mandatory group has no member set and a
\* positional slot was left unfilled.
C5_HelpSetWithEverythingMissing ==
    /\ LoadEnded /\ HelpSet /\ last.thrown = "none"
    /\ \E k \in mandatory_ : GroupsOf(k) = {} /\ ~options_[k].is_set
    /\ \E g \in DOMAIN mtx_groups_ :
        /\ mtx_groups_[g].mandatory
        /\ \A k \in mtx_groups_[g].members \cap DOMAIN options_ : ~options_[k].is_set
    /\ pos < Len(positional_)

\* C6: a token that begins with '-' met while pos > 0 makes load_arguments throw
\* the parse error, and the parse error is thrown at no other token: when every
\* dash token comes before the first positional write, it is never thrown.
C6_DashAfterPositionalIsParseError ==
    [][/\ (pc = "bind" /\ idx <= Len(args) /\ BeginsWithDash(args[idx]) /\ pos > 0)
            => (pc' = "done" /\ last'.thrown = "parse_error")
       /\ (pc = "bind" /\ pc' = "done" /\ last'.thrown = "parse_error")
            => (idx <= Len(args) /\ BeginsWithDash(args[idx]) /\ pos > 0
                /\ Len(positional_) >= 1 /\ positional_[1].value # <<>>)]_vars

\* C6, its case: the parse error was thrown at a dash token that follows a
\* positional token written to slot 0.
C6_ParseErrorThrown ==
    /\ LoadEnded /\ last.thrown = "parse_error"
    /\ idx = 2 /\ ~BeginsWithDash(args[1]) /\ BeginsWithDash(args[2])
    /\ positional_[1].value = args[1]

\* C2: with help not set, load_arguments raises the missing-required-options
\* error exactly when, after binding, some key of the required set that is in no
\* group is not set; an option that is set is never reported as missing.
C2_MissingRequiredIff ==
    (BinderCompleted /\ ~HelpSet) =>
        /\ (last.thrown = "required" /\ last.missing_args # {})
            <=> (\E k \in mandatory_ : GroupsOf(k) = {} /\ ~options_[k].is_set)
        /\ \A k \in last.missing_args : ~options_[k].is_set

\* C3: with help not set, load_arguments raises the required-group error exactly
\* when, after binding, some mandatory group has no member that is set.
C3_MissingGroupIff ==
    (BinderCompleted /\ ~HelpSet) =>
        /\ (last.thrown = "required" /\ last.missing_grp # {})
            <=> (\E g \in DOMAIN mtx_groups_ :
                    /\ mtx_groups_[g].mandatory
                    /\ ~\E k \in mtx_groups_[g].members \cap DOMAIN options_ :
                            options_[k].is_set)
        /\ \A g \in last.missing_grp : mtx_groups_[g].mandatory

\* C7: with help not set and neither the required-side error nor the conflict
\* error raised, load_arguments raises the missing-positional error exactly when
\* pos is below the number of positional slots.
C7_MissingPositionalIff ==
    (BinderCompleted /\ ~HelpSet /\ last.thrown \notin {"required", "conflict"}) =>
        (last.thrown = "missing_positional" <=> pos < Len(positional_))

----------------------------------------------------------------------------
(* Properties of parse_option, checked under SpecAccess *)

\* parse_option has returned or thrown.
ParseOptionEnded == pc = "accessed" /\ last.op = "parse_option"

\* s holds, after leading whitespace, a numeral of the base: an optional sign, in
\* base 16 an optional 0x, and at least one digit.
HasNumeral(s, base) ==
    \E i \in 1..Len(s) :
        /\ \A j \in 1..(i - 1) : s[j] = " "
        /\ s[i] # " "
        /\ LET r == SubSeq(s, i, Len(s))
               u == IF Head(r) \in {"+", "-"} THEN Tail(r) ELSE r
               w == IF base = 16 /\ Len(u) >= 2 /\ u[1] = "0" /\ u[2] \in {"x", "X"}
                    THEN SubSeq(u, 3, Len(u)) ELSE u
           IN  w # <<>> /\ digit_value(Head(w), base) >= 0

\* The stored string s of an option of the declared type can be converted to T.
Convertible(s, T, type) ==
    IF T = "int" THEN HasNumeral(s, IF type = HEX THEN 16 ELSE 10)
    ELSE \E i \in 1..Len(s) : s[i] # " "

\* C9: parse_option<T> on a set option whose declared type is not BOOL raises the
\* conversion error whenever the stored string cannot be converted to T, for
\* every declared type, HEX included; it never returns a value for such a string.
C9_UnconvertibleValueRaises ==
    ParseOptionEnded =>
        LET val == find_option_(This, last.name)
        IN  (/\ val # options_end
             /\ options_[val].is_set
             /\ options_[val].type # BOOL
             /\ ~Convertible(options_[val].value, last.T, options_[val].type))
            => last.thrown = "conversion_error"

\* C10: after load_arguments on a command line where the token of the STR option
\* -a is followed by a value token s that does not begin with '-',
\* parse_option<string>("a") returns exactly s, for every such s.
C10_StringRoundTrip ==
    (/\ ParseOptionEnded
     /\ last.T = "string"
     /\ last.name = k_a.shr
     /\ k_a \in DOMAIN options_
     /\ options_[k_a].type = STR
     /\ Len(args) = 2
     /\ idx > Len(args)
     /\ args[1] = <<"-">> \o k_a.shr
     /\ ~BeginsWithDash(args[2]))
    => (last.thrown = "" /\ last.value = args[2])

\* The option a lookup by name ended at, seen from the state after the call.
Matched(key) == {k \in DOMAIN options_ : k.shr = key \/ k.lng = key}

\* C11: parse_option<T>(name) returns T() when no option has the name or the
\* option is not set; on a set BOOL option it returns true coerced to T whatever
\* the stored string is.
C11_DefaultOrTrue ==
    ParseOptionEnded =>
        LET val == find_option_(This, last.name)
            unset == val = options_end \/ ~options_[val].is_set
        IN  /\ unset =>
                (last.thrown = "" /\ last.value = IF last.T = "int" THEN 0 ELSE <<>>)
            /\ (~unset /\ options_[val].type = BOOL) =>
                (last.thrown = ""
                 /\ last.value = IF last.T = "int" THEN 1 ELSE char_of_true)

\* C11, its case: parse_option<int> on a set BOOL option whose stored string is
\* not a number returned 1.
C11_TrueFromBoolWithText ==
    /\ ParseOptionEnded
    /\ last.T = "int" /\ last.name = k_a.shr /\ last.thrown = "" /\ last.value = 1
    /\ k_a \in DOMAIN options_
    /\ options_[k_a].type = BOOL /\ options_[k_a].is_set
    /\ options_[k_a].value = <<"z">>

\* The digits of a stored HEX value: the string without its 0x prefix.
HexDigitsOf(s) ==
    IF Len(s) >= 2 /\ s[1] = "0" /\ s[2] \in {"x", "X"} THEN SubSeq(s, 3, Len(s)) ELSE s

\* ds is a non-empty string of hexadecimal digits.
AllHex(ds) == ds # <<>> /\ \A i \in 1..Len(ds) : digit_value(ds[i], 16) >= 0

\* The digits ds write the number r in base 16.
RECURSIVE WritesInBase16(_, _)
WritesInBase16(ds, r) ==
    IF ds = <<>> THEN r = 0
    ELSE /\ r >= 0
         /\ r % 16 = digit_value(ds[Len(ds)], 16)
         /\ WritesInBase16(SubSeq(ds, 1, Len(ds) - 1), r \div 16)

\* The number ds writes in base 16 is at most INT_MAX = 0x7FFFFFFF.
FitsInt(ds) == Len(ds) < 8 \/ (Len(ds) = 8 /\ digit_value(ds[1], 16) <= 7)

\* parse_option<int>("a") ended on the set HEX option -a whose stored value is a
\* non-empty string of hexadecimal digits, with or without 0x.
HexParseEnded ==
    /\ ParseOptionEnded
    /\ last.T = "int" /\ last.name = k_a.shr
    /\ k_a \in DOMAIN options_
    /\ options_[k_a].type = HEX /\ options_[k_a].is_set
    /\ AllHex(HexDigitsOf(options_[k_a].value))

\* C12 as stated: for every non-empty string of hexadecimal digits, with or
\* without 0x, parse_option<int> returns the base-16 value of the digits.
C12_HexValueReturned ==
    HexParseEnded =>
        (last.thrown = "" /\ WritesInBase16(HexDigitsOf(options_[k_a].value), last.value))

\* C12, amended: for every non-empty string of hexadecimal digits, with or
\* without 0x, whose value fits in an int, parse_option<int> returns the base-16
\* value of the digits (so FF and 0xFF give the same, 255).
C12_HexValueReturnedWhenItFits ==
    (HexParseEnded /\ FitsInt(HexDigitsOf(options_[k_a].value))) =>
        (last.thrown = "" /\ WritesInBase16(HexDigitsOf(options_[k_a].value), last.value))

\* C12, its case: the value 0xFF given on the command line was read as 255.
C12_PrefixedHexRead ==
    /\ HexParseEnded
    /\ Len(args) = 2 /\ args[2] = <<"0", "x", "F", "F">>
    /\ options_[k_a].value = args[2]
    /\ last.thrown = "" /\ last.value = 255

\* A positional accessor has returned or thrown.
PositionalAccessEnded ==
    pc = "accessed" /\ last.op \in {"operator[](idx)", "parse_positional"}

\* C13: operator[](idx) and parse_positional raise a bounds error for every
\* index outside 0..slot_count-1, and operator[](idx) returns the slot's value
\* for every index inside.
C13_PositionalBounds ==
    PositionalAccessEnded =>
        LET inside == last.idx >= 0 /\ last.idx < Len(positional_)
        IN  /\ (~inside /\ last.op = "operator[](idx)") => last.thrown = "out_of_range"
            /\ (~inside /\ last.op = "parse_positional") => last.thrown = "index_error"
            /\ (inside /\ last.op = "operator[](idx)") =>
                (last.thrown = "" /\ last.value = positional_[last.idx + 1].value)
            /\ inside => last.thrown \notin {"out_of_range", "index_error"}

\* C13, its case: with no slot registered parse_positional(0) raised the bounds
\* error.
C13_IndexZeroWithoutSlots ==
    /\ PositionalAccessEnded
    /\ last.op = "parse_positional" /\ last.idx = 0 /\ last.thrown = "index_error"
    /\ positional_ = <<>>

\* C14: after load_arguments on a command line that names the registered BOOL
\* option -a, operator[]("a") is a non-empty string and option_is_set("a") is
\* true; for a name no option has, operator[] gives "" and option_is_set false.
C14_BoolOptionSubscript ==
    (pc = "accessed" /\ last.op = "operator[]") =>
        /\ (/\ last.key = k_a.shr
            /\ k_a \in DOMAIN options_
            /\ options_[k_a].type = BOOL
            /\ idx > Len(args)
            /\ \E i \in 1..Len(args) : args[i] = <<"-">> \o k_a.shr)
            => (last.value # <<>> /\ option_is_set(This, k_a.shr))
        /\ Matched(last.key) = {}
            => (last.value = <<>> /\ ~option_is_set(This, last.key))

\* C15: has_option(s) is true exactly when some registered option has s as its
\* non-empty short name or its non-empty long name; the empty string finds none.
C15_HasOptionIffNamed ==
    (pc = "accessed" /\ last.op = "probe") =>
        (last.has_option <=>
            \E k \in DOMAIN options_ :
                \/ k.shr # <<>> /\ k.shr = last.key
                \/ k.lng # <<>> /\ k.lng = last.key)

----------------------------------------------------------------------------
(* Properties of the groups and of the positional cursor *)

\* C16: after any sequence of add_mutually_exclusive_group, register_option and
\* insert_into_group calls, every member of a group is the key of a registered
\* option.
C16_GroupMembersRegistered ==
    \A g \in DOMAIN mtx_groups_ : mtx_groups_[g].members \subseteq DOMAIN options_

\* C17: after any sequence of add_mutually_exclusive_group, register_option and
\* insert_into_group calls, each registered option's key is a member of at most
\* one group.
C17_AtMostOneGroup ==
    \A k \in DOMAIN options_ : Cardinality(GroupsOf(k)) <= 1

\* C20: at every pass of the loop the cursor pos is at most the number of slots:
\* a non-dash token with no pending option is written to slot pos when pos is
\* below the number of slots, and is dropped otherwise, changing no slot, no
\* option and not the cursor.
C20_SurplusTokenDropped ==
    [][(/\ pc = "bind"
        /\ idx <= Len(args)
        /\ ~is_dash(args[idx])
        /\ opt = options_end)
       => IF pos < Len(positional_)
          THEN /\ pc' = "bind"
               /\ pos' = pos + 1
               /\ positional_'[pos + 1].value = args[idx]
          ELSE /\ pc' = "bind"
               /\ pos' = pos
               /\ positional_' = positional_
               /\ options_' = options_]_vars

\* C18: after every call of load_arguments, the first or a later one, returned
\* or thrown, each slot below the number pos of positional tokens bound in the
\* call holds a non-empty value and each slot from pos on holds the empty string.
C18_SlotsFilledBelowCursor ==
    LoadEnded =>
        \A i \in 1..Len(positional_) :
            IF i - 1 < pos THEN positional_[i].value # <<>>
            ELSE positional_[i].value = <<>>

\* C19: a second call of load_arguments with the argument vector of the call
\* before it gives the same outcome and leaves the options, the slots and
\* exec_name as the first call left them.
C19_SameCallSameState ==
    [][(/\ pc = "done" /\ last.op = "load_arguments"
        /\ pc' = "done"
        /\ args' = args)
       => (/\ last' = last
           /\ options_' = options_
           /\ positional_' = positional_
           /\ exec_name_' = exec_name_)]_vars

----------------------------------------------------------------------------
(* Properties of the required set, of the validator's order and of the binder *)

\* C21: after any sequence of registrations, every registered option that is a
\* member of a group whose mandatory flag is true is in the required set,
\* whenever it was put into the group and by whichever call.
C21_MandatoryGroupMembersRequired ==
    \A g \in DOMAIN mtx_groups_ :
        mtx_groups_[g].mandatory =>
            (mtx_groups_[g].members \cap DOMAIN options_) \subseteq mandatory_

\* What the state after binding asks of the validator: the required ungrouped
\* options that are not set, the mandatory groups with no member set, the
\* groups with two or more members set.
UnsetRequired == {k \in mandatory_ : GroupsOf(k) = {} /\ ~options_[k].is_set}
UnmetGroups ==
    {g \in DOMAIN mtx_groups_ :
        /\ mtx_groups_[g].mandatory
        /\ \A k \in mtx_groups_[g].members \cap DOMAIN options_ : ~options_[k].is_set}
ConflictingGroups ==
    {g \in DOMAIN mtx_groups_ :
        Cardinality({k \in mtx_groups_[g].members \cap DOMAIN options_ :
                        options_[k].is_set}) >= 2}

\* C22: the validator's errors come in a fixed order: the missing options and
\* the missing groups make one error, raised whenever either is non-empty,
\* whatever else is wrong; the conflict error is raised only when both are
\* empty; the missing-positional error only when neither of the others applies.
C22_ValidationPrecedence ==
    (BinderCompleted /\ ~HelpSet) =>
        LET required_side == UnsetRequired # {} \/ UnmetGroups # {}
            conflict == ConflictingGroups # {}
            shortfall == pos < Len(positional_)
        IN  /\ required_side =>
                /\ last.thrown = "required"
                /\ last.missing_args = UnsetRequired
                /\ last.missing_grp = UnmetGroups
            /\ (~required_side /\ conflict) => last.thrown = "conflict"
            /\ (~required_side /\ ~conflict /\ shortfall) =>
                last.thrown = "missing_positional"
            /\ (~required_side /\ ~conflict /\ ~shortfall) => last.thrown = "none"

\* The name a dash token asks for: the token without its leading dashes.
RECURSIVE StripDashes(_)
StripDashes(A) == IF A # <<>> /\ Head(A) = "-" THEN StripDashes(Tail(A)) ELSE A

\* A pass of the loop at a dash token taken for an option (pos is still 0).
DashTokenPass == pc = "bind" /\ idx <= Len(args) /\ BeginsWithDash(args[idx]) /\ pos = 0

\* C23: the token of a registered non-BOOL option leaves the option set with the
\* value it had and pending; when the next token is another dash token the
\* pending option is replaced or dropped without an error, its value is kept and
\* no slot is written; when there is no next token the call goes on to validate.
C23_PendingOptionWithoutValue ==
    [][/\ (/\ DashTokenPass
           /\ StripDashes(args[idx]) # <<>>
           /\ Matched(StripDashes(args[idx])) # {}
           /\ options_[find_option_(This, StripDashes(args[idx]))].type # BOOL)
          => LET k == find_option_(This, StripDashes(args[idx]))
             IN  /\ pc' = "bind"
                 /\ opt' = k
                 /\ options_'[k].is_set
                 /\ options_'[k].value = options_[k].value
                 /\ positional_' = positional_
       /\ (DashTokenPass /\ opt # options_end)
          => /\ pc' = "bind"
             /\ options_'[opt].is_set
             /\ options_'[opt].value = options_[opt].value
             /\ positional_' = positional_
       /\ (pc = "bind" /\ idx > Len(args) /\ opt # options_end)
          => /\ options_' = options_
             /\ positional_' = positional_
             /\ options_[opt].is_set]_vars

\* C24: a dash token whose name is no registered option's short or long name
\* does not make the binder raise and binds nothing: the options and the slots
\* stay as they are, no option is pending after it, and the loop goes on with
\* the next token.
C24_UnknownOptionSkipped ==
    [][(DashTokenPass /\ Matched(StripDashes(args[idx])) = {})
       => /\ pc' = "bind"
          /\ idx' = idx + 1
          /\ opt' = options_end
          /\ options_' = options_
          /\ positional_' = positional_]_vars

\* C25: when load_arguments raises the conflict error, the members it lists
\* under a conflicting group are exactly the members of the group whose own
\* option is set, whatever names the keys have.
C25_ConflictListsSetMembers ==
    (LoadEnded /\ last.thrown = "conflict") =>
        \A g \in last.conflicting :
            last.listed[g] = {k \in mtx_groups_[g].members : options_[k].is_set}

\* A step that is a whole call of load_arguments.
LoadCallStep == pc \in {"idle", "done"} /\ pc' = "done" /\ last'.op = "load_arguments"

\* C26: no call resets an option's is_set from true to false, so an option seen
\* in one load_arguments call is set in every later call, and once the help
\* option has been seen every later load_arguments call skips validation.
C26_IsSetMonotone ==
    [][/\ \A k \in DOMAIN options_ :
            options_[k].is_set => (k \in DOMAIN options_' /\ options_'[k].is_set)
       /\ (LoadCallStep /\ HelpSet) =>
            last'.thrown \notin {"required", "conflict", "missing_positional",
                                 "at_out_of_range"}]_vars

\* C26, its case: a call whose command line has no help token returned with the
\* help option still set from an earlier call, although a required option is
\* unset and a positional slot unfilled.
C26_HelpKeptByLaterCall ==
    /\ LoadEnded /\ last.thrown = "none"
    /\ HelpSet
    /\ \A i \in 1..Len(args) : args[i] # <<"-", "-">> \o help_key.lng
    /\ k_a \in mandatory_ /\ ~options_[k_a].is_set
    /\ pos < Len(positional_)

====
